---- MODULE Spec2Model ----
(***************************************************************************)
(* Construction, validation, attribute assignment and serialization of     *)
(* the topology records of r2x/models/topology.py: Area, LoadZone, DCBus,  *)
(* ACBus and Arc.                                                          *)
(*                                                                         *)
(* Python values are tagged records [t |-> <type>, v |-> <payload>].       *)
(* Floats are counted in thousandths (1.571 rad is 1571, 0.9 pu is 900).   *)
(***************************************************************************)
EXTENDS Integers, Sequences, FiniteSets, TLC

\* ------------------------------------------------------------------ bounds
MaxNumber == 1
MaxPower == 1
MaxLimit == 1
MaxVolt == 1

\* ------------------------------------------------------- program constants
AngleBound == 1571
ExampleNumber == 1
DCExampleKV == 20
ACExampleKV == 13
ExampleMin == 900
ExampleMax == 1100

\* ------------------------------------------------------------------ values
None == [t |-> "none", v |-> "None"]
Omitted == [t |-> "omitted", v |-> "-"]
NoInstance == [t |-> "no_instance", v |-> "-"]
NoDump == [t |-> "no_dump", v |-> "-"]
NoRead == [t |-> "no_read", v |-> "-"]

PyInt(n) == [t |-> "int", v |-> n]
PyFloat(m) == [t |-> "float", v |-> m]
PyStr(s) == [t |-> "str", v |-> s]
Enum(e) == [t |-> "ACBusTypes", v |-> e]
Quantity(m, u) == [t |-> "Quantity", v |-> [magnitude |-> m, unit |-> u]]
VoltageQ(m, u) == [t |-> "Voltage", v |-> [magnitude |-> m, unit |-> u]]
Pair(lo, hi) == [t |-> "pair", v |-> [min |-> lo, max |-> hi]]
MinMax(lo, hi) == [t |-> "MinMax", v |-> [min |-> lo, max |-> hi]]
Inst(kind, fields) == [t |-> kind, v |-> fields]

Ok(x) == [ok |-> TRUE, val |-> x]
Err == [ok |-> FALSE, val |-> None]

Kinds == {"Area", "LoadZone", "DCBus", "ACBus", "Arc"}
BusKinds == {"DCBus", "ACBus"}
ExtraKey == "bogus_field"

\* ----------------------------------------------------------- declarations
\* Fields in declaration order, inherited fields first.
Fields(kind) ==
  CASE kind = "Area" -> <<"name", "peak_active_power", "peak_reactive_power", "load_response">>
    [] kind = "LoadZone" -> <<"name", "peak_active_power", "peak_reactive_power">>
    [] kind = "DCBus" -> <<"name", "number", "bustype", "area", "load_zone",
                           "voltage_limits", "base_voltage", "magnitude">>
    [] kind = "ACBus" -> <<"name", "number", "bustype", "area", "load_zone",
                           "voltage_limits", "base_voltage", "magnitude", "angle">>
    [] kind = "Arc" -> <<"name", "from_to", "to_from">>

FieldSet(kind) == {Fields(kind)[i] : i \in 1..Len(Fields(kind))}

\* Fields declared without a default.
Required(kind, f) ==
  \/ f = "number"
  \/ f \in {"from_to", "to_from"}
  \/ f = "name" /\ kind # "Arc"

Default_zero(kind, f) ==
  CASE f \in {"peak_active_power", "peak_reactive_power", "load_response"} -> PyFloat(0)
    [] f = "name" -> PyStr("")
    [] f = "magnitude" -> PyFloat(0)
    [] OTHER -> None

Default_named(kind, f) ==
  CASE f \in {"peak_active_power", "peak_reactive_power", "load_response"} -> PyFloat(0)
    [] f = "name" -> PyStr("arc")
    [] OTHER -> None

\* The declared default of a field that has one.
Default(kind, f) ==
  CASE f \in {"peak_active_power", "peak_reactive_power", "load_response"} -> PyFloat(0)
    [] f = "name" -> PyStr("")
    [] OTHER -> None

Frozen_off(kind, f) == FALSE

\* Field(frozen=True)
Frozen(kind, f) == kind = "Arc" /\ f = "name"

Excluded_off(kind, f) == FALSE

\* Field(exclude=True)
Excluded(kind, f) == kind = "Arc" /\ f = "name"

\* ------------------------------------------------------- external types
ACBusTypes == {"PV", "PQ", "SLACK"}

Dimension(u) == IF u \in {"kV", "V"} THEN "voltage" ELSE "power"

\* Voltage: a quantity is taken over, magnitude and unit kept, when its unit
\* is a voltage; a Voltage instance passes through.
VoltageValidate(x) ==
  IF x.t \in {"Quantity", "Voltage"} /\ Dimension(x.v.unit) = "voltage"
  THEN Ok(VoltageQ(x.v.magnitude, x.v.unit))
  ELSE Err

\* MinMax built from a pair of numbers: min <= max is its constructor contract.
MinMaxNew(x) ==
  IF x.t = "pair" /\ x.v.min <= x.v.max THEN Ok(MinMax(x.v.min, x.v.max)) ELSE Err

\* The name of the base component: text.
BaseName(x) == IF x.t = "str" THEN Ok(x) ELSE Err

\* ------------------------------------------------------- field validators
PositiveInt_ge(x) == IF x.t = "int" /\ x.v >= 0 THEN Ok(x) ELSE Err

PositiveInt(x) == IF x.t = "int" /\ x.v > 0 THEN Ok(x) ELSE Err

NonNegativeFloat_gt(x) ==
  CASE x.t = "float" -> IF x.v > 0 THEN Ok(x) ELSE Err
    [] x.t = "int" -> IF x.v > 0 THEN Ok(PyFloat(1000 * x.v)) ELSE Err
    [] OTHER -> Err

\* float, ge=0; an int is converted to float.
NonNegativeFloat(x) ==
  CASE x.t = "float" -> IF x.v >= 0 THEN Ok(x) ELSE Err
    [] x.t = "int" -> IF x.v >= 0 THEN Ok(PyFloat(1000 * x.v)) ELSE Err
    [] OTHER -> Err

\* float, unconstrained.
AnyFloat(x) ==
  CASE x.t = "float" -> Ok(x)
    [] x.t = "int" -> Ok(PyFloat(1000 * x.v))
    [] OTHER -> Err

BustypeField(x) ==
  CASE x.t = "none" -> Ok(None)
    [] x.t = "ACBusTypes" /\ x.v \in ACBusTypes -> Ok(x)
    [] OTHER -> Err

AreaField(x) ==
  CASE x.t = "none" -> Ok(None)
    [] x.t = "Area" -> Ok(x)
    [] OTHER -> Err

LoadZoneField(x) ==
  CASE x.t = "none" -> Ok(None)
    [] x.t = "LoadZone" -> Ok(x)
    [] OTHER -> Err

VoltageLimitsField_any(x) ==
  CASE x.t = "none" -> Ok(None)
    [] x.t = "MinMax" -> Ok(x)
    [] x.t = "pair" -> Ok(MinMax(x.v.min, x.v.max))
    [] OTHER -> Err

VoltageLimitsField(x) ==
  CASE x.t = "none" -> Ok(None)
    [] x.t = "MinMax" -> Ok(x)
    [] OTHER -> MinMaxNew(x)

BaseVoltageField_ge(x) ==
  IF x.t = "none" THEN Ok(None)
  ELSE LET r == VoltageValidate(x)
       IN IF r.ok /\ r.val.v.magnitude >= 0 THEN r ELSE Err

\* Voltage, gt=0, or None.
BaseVoltageField(x) ==
  IF x.t = "none" THEN Ok(None)
  ELSE LET r == VoltageValidate(x)
       IN IF r.ok /\ r.val.v.magnitude > 0 THEN r ELSE Err

MagnitudeField(x) == IF x.t = "none" THEN Ok(None) ELSE NonNegativeFloat(x)

AngleField_closed(x) ==
  CASE x.t = "none" -> Ok(None)
    [] x.t = "float" -> IF x.v >= -AngleBound /\ x.v <= AngleBound THEN Ok(x) ELSE Err
    [] OTHER -> Err

\* float | None, gt=-1.571, lt=1.571
AngleField(x) ==
  CASE x.t = "none" -> Ok(None)
    [] x.t = "float" -> IF x.v > -AngleBound /\ x.v < AngleBound THEN Ok(x) ELSE Err
    [] OTHER -> Err

ArcName(x) == IF x.t = "str" THEN Ok(x) ELSE Err

\* A Bus field takes an instance of any Bus subclass as it is.
BusField(x) == IF x.t \in BusKinds THEN Ok(x) ELSE Err

ValidateField(kind, f, x) ==
  CASE f = "name" -> IF kind = "Arc" THEN ArcName(x) ELSE BaseName(x)
    [] f \in {"peak_active_power", "peak_reactive_power"} -> NonNegativeFloat(x)
    [] f = "load_response" -> AnyFloat(x)
    [] f = "number" -> PositiveInt(x)
    [] f = "bustype" -> BustypeField(x)
    [] f = "area" -> AreaField(x)
    [] f = "load_zone" -> LoadZoneField(x)
    [] f = "voltage_limits" -> VoltageLimitsField(x)
    [] f = "base_voltage" -> BaseVoltageField(x)
    [] f = "magnitude" -> MagnitudeField(x)
    [] f = "angle" -> AngleField(x)
    [] f \in {"from_to", "to_from"} -> BusField(x)

\* One field of the input: its value validated, or its default when the key
\* is not there, or an error when it is required.
FieldResult(kind, f, args) ==
  IF args[f] = Omitted
  THEN IF Required(kind, f) THEN Err ELSE Ok(Default(kind, f))
  ELSE ValidateField(kind, f, args[f])

EmptyFields == [f \in {} |-> None]

RECURSIVE Walk_first(_, _, _, _)
Walk_first(kind, args, fs, acc) ==
  IF fs = <<>> \/ acc.errors # {} THEN acc
  ELSE LET f == Head(fs)
           r == FieldResult(kind, f, args)
       IN Walk_first(kind, args, Tail(fs),
            IF r.ok THEN [acc EXCEPT !.values = (f :> r.val) @@ @]
                    ELSE [acc EXCEPT !.errors = @ \cup {f}])

\* Every field is validated, in declaration order; errors are collected and
\* validation goes on with the next field.
RECURSIVE Walk(_, _, _, _)
Walk(kind, args, fs, acc) ==
  IF fs = <<>> THEN acc
  ELSE LET f == Head(fs)
           r == FieldResult(kind, f, args)
       IN Walk(kind, args, Tail(fs),
            IF r.ok THEN [acc EXCEPT !.values = (f :> r.val) @@ @]
                    ELSE [acc EXCEPT !.errors = @ \cup {f}])

\* Keys that are no field of the model are errors too.
ExtraErrors(args) == IF args[ExtraKey] # Omitted THEN {ExtraKey} ELSE {}

\* Kind(**args): the instance, or the ValidationError and no instance.
Construct(kind, args) ==
  LET w == Walk(kind, args, Fields(kind), [errors |-> {}, values |-> EmptyFields])
      errs == w.errors \cup ExtraErrors(args)
  IN IF errs = {} THEN [errors |-> {}, obj |-> Inst(kind, w.values)]
                  ELSE [errors |-> errs, obj |-> NoInstance]

\* ---------------------------------------------------------------- examples
AreaExampleArgs ==
  [name |-> PyStr("New York"), peak_active_power |-> Omitted,
   peak_reactive_power |-> Omitted, load_response |-> Omitted, bogus_field |-> Omitted]

LoadZoneExampleArgs ==
  [name |-> PyStr("ExampleLoadZone"), peak_active_power |-> Omitted,
   peak_reactive_power |-> Omitted, bogus_field |-> Omitted]

AreaExampleObj == Construct("Area", AreaExampleArgs).obj

LoadZoneExampleObj == Construct("LoadZone", LoadZoneExampleArgs).obj

DCBusExampleArgs_zero ==
  [name |-> PyStr("ExampleBus"), number |-> PyInt(0), bustype |-> Enum("PV"),
   area |-> AreaExampleObj, load_zone |-> LoadZoneExampleObj,
   voltage_limits |-> Omitted, base_voltage |-> Quantity(DCExampleKV, "kV"),
   magnitude |-> Omitted, bogus_field |-> Omitted]

DCBusExampleArgs ==
  [name |-> PyStr("ExampleBus"), number |-> PyInt(ExampleNumber), bustype |-> Enum("PV"),
   area |-> AreaExampleObj, load_zone |-> LoadZoneExampleObj,
   voltage_limits |-> Omitted, base_voltage |-> Quantity(DCExampleKV, "kV"),
   magnitude |-> Omitted, bogus_field |-> Omitted]

ACBusExampleArgs ==
  [name |-> PyStr("ExampleBus"), number |-> PyInt(ExampleNumber), bustype |-> Enum("PV"),
   area |-> AreaExampleObj, load_zone |-> LoadZoneExampleObj,
   voltage_limits |-> MinMax(ExampleMin, ExampleMax),
   base_voltage |-> Quantity(ACExampleKV, "kV"),
   magnitude |-> Omitted, angle |-> Omitted, bogus_field |-> Omitted]

DCBusExampleObj == Construct("DCBus", DCBusExampleArgs).obj

ACBusExampleObj == Construct("ACBus", ACBusExampleArgs).obj

\* --------------------------------------------- assignment and serialization
\* obj.f = x: a frozen field raises and the instance stays as it was.
SetAttr(inst, f, x) ==
  IF Frozen(inst.t, f) THEN [raised |-> TRUE, obj |-> inst]
  ELSE [raised |-> FALSE, obj |-> [inst EXCEPT !.v[f] = x]]

\* The representation of an instance: its fields but the excluded ones,
\* nested instances represented in turn.
RECURSIVE Dump(_)
Dump(x) ==
  IF x.t \in Kinds
  THEN [t |-> "dict",
        v |-> [f \in {g \in FieldSet(x.t) : ~Excluded(x.t, g)} |-> Dump(x.v[f])]]
  ELSE x

\* ------------------------------------------------------------------ inputs
NameVals == {PyStr("A")}
ArcNameVals == {Omitted, PyStr(""), PyStr("A"), PyInt(7)}
ExtraVals == {Omitted, PyInt(1)}
PowerVals == {Omitted, PyInt(MaxPower)} \cup {PyFloat(p) : p \in -MaxPower..MaxPower}
NumberVals == {Omitted, PyStr("x")} \cup {PyInt(n) : n \in -MaxNumber..MaxNumber}
BustypeVals == {Omitted, Enum("PV")}
AreaVals == {Omitted, AreaExampleObj}
LoadZoneVals == {Omitted, LoadZoneExampleObj}
VoltageLimitsVals == {Omitted} \cup {Pair(MaxLimit, hi) : hi \in 0..(MaxLimit + 1)}
BaseVoltageVals ==
  {Omitted, Quantity(MaxVolt, "MW")} \cup {Quantity(m, "kV") : m \in -MaxVolt..MaxVolt}
MagnitudeVals == {Omitted} \cup {PyFloat(p) : p \in -MaxPower..MaxPower}
AngleVals ==
  {Omitted, PyFloat(0)}
    \cup {PyFloat(AngleBound + d) : d \in {-1, 0, 1}}
    \cup {PyFloat(-AngleBound + d) : d \in {-1, 0, 1}}
BusPool == {DCBusExampleObj, ACBusExampleObj}
EndpointVals == {Omitted, AreaExampleObj} \cup BusPool

AreaArgs ==
  [name : NameVals, peak_active_power : PowerVals, peak_reactive_power : PowerVals,
   load_response : PowerVals, bogus_field : ExtraVals]

LoadZoneArgs ==
  [name : NameVals, peak_active_power : PowerVals, peak_reactive_power : PowerVals,
   bogus_field : ExtraVals]

DCBusArgs ==
  [name : NameVals, number : NumberVals, bustype : BustypeVals, area : AreaVals,
   load_zone : LoadZoneVals, voltage_limits : VoltageLimitsVals,
   base_voltage : BaseVoltageVals, magnitude : MagnitudeVals, bogus_field : ExtraVals]

ACBusArgs ==
  [name : NameVals, number : NumberVals, bustype : BustypeVals, area : AreaVals,
   load_zone : LoadZoneVals, voltage_limits : VoltageLimitsVals,
   base_voltage : BaseVoltageVals, magnitude : MagnitudeVals, angle : AngleVals,
   bogus_field : ExtraVals]

ArcArgs ==
  [name : ArcNameVals, from_to : EndpointVals, to_from : EndpointVals,
   bogus_field : ExtraVals]

NoArgs == [bogus_field |-> Omitted]

\* ------------------------------------------------------------------- state
VARIABLES
  pc,       \* "idle", "built" (an instance exists) or "failed" (ValidationError)
  kind,     \* the type of the last construction
  args,     \* the keyword arguments of the last construction
  obj,      \* the instance, or NoInstance
  errors,   \* the fields the ValidationError lists
  lastOp,   \* the last operation
  result    \* what the last operation on the instance gave

vars == <<pc, kind, args, obj, errors, lastOp, result>>

Init ==
  /\ pc = "idle"
  /\ kind = "none"
  /\ args = NoArgs
  /\ obj = NoInstance
  /\ errors = {}
  /\ lastOp = "none"
  /\ result = NoRead

Build(k, a, op) ==
  LET r == Construct(k, a)
  IN /\ pc' = IF r.errors = {} THEN "built" ELSE "failed"
     /\ kind' = k
     /\ args' = a
     /\ obj' = r.obj
     /\ errors' = r.errors
     /\ lastOp' = op
     /\ result' = NoRead

ConstructArea == pc = "idle" /\ \E a \in AreaArgs : Build("Area", a, "construct")

ConstructLoadZone == pc = "idle" /\ \E a \in LoadZoneArgs : Build("LoadZone", a, "construct")

ConstructDCBus == pc = "idle" /\ \E a \in DCBusArgs : Build("DCBus", a, "construct")

ConstructACBus == pc = "idle" /\ \E a \in ACBusArgs : Build("ACBus", a, "construct")

ConstructArc == pc = "idle" /\ \E a \in ArcArgs : Build("Arc", a, "construct")

AreaExample == pc = "idle" /\ Build("Area", AreaExampleArgs, "example")

LoadZoneExample == pc = "idle" /\ Build("LoadZone", LoadZoneExampleArgs, "example")

DCBusExample == pc = "idle" /\ Build("DCBus", DCBusExampleArgs, "example")

ACBusExample == pc = "idle" /\ Build("ACBus", ACBusExampleArgs, "example")

\* arc.name = x
AssignName ==
  /\ pc = "built" /\ kind = "Arc"
  /\ \E x \in {PyStr(""), PyStr("A"), PyStr("B")} :
       LET r == SetAttr(obj, "name", x)
       IN /\ obj' = r.obj
          /\ result' = [t |-> "assigned", v |-> [value |-> x, raised |-> r.raised]]
  /\ lastOp' = "assign_name"
  /\ UNCHANGED <<pc, kind, args, errors>>

\* arc.from_to = bus, arc.to_from = bus
AssignEndpoint ==
  /\ pc = "built" /\ kind = "Arc"
  /\ \E f \in {"from_to", "to_from"}, b \in BusPool :
       LET r == SetAttr(obj, f, b)
       IN /\ obj' = r.obj
          /\ result' = [t |-> "assigned", v |-> [value |-> b, raised |-> r.raised]]
  /\ lastOp' = "assign_endpoint"
  /\ UNCHANGED <<pc, kind, args, errors>>

ModelDump ==
  /\ pc = "built"
  /\ result' = Dump(obj)
  /\ lastOp' = "dump"
  /\ UNCHANGED <<pc, kind, args, obj, errors>>

ReadField ==
  /\ pc = "built"
  /\ \E f \in FieldSet(kind) : result' = [t |-> "read", v |-> [field |-> f, value |-> obj.v[f]]]
  /\ lastOp' = "read"
  /\ UNCHANGED <<pc, kind, args, obj, errors>>

Discard ==
  /\ pc \in {"built", "failed"}
  /\ pc' = "idle"
  /\ kind' = "none"
  /\ args' = NoArgs
  /\ obj' = NoInstance
  /\ errors' = {}
  /\ lastOp' = "none"
  /\ result' = NoRead

Next ==
  \/ ConstructArea
  \/ ConstructLoadZone
  \/ ConstructDCBus
  \/ ConstructACBus
  \/ ConstructArc
  \/ AreaExample
  \/ LoadZoneExample
  \/ DCBusExample
  \/ ACBusExample
  \/ AssignName
  \/ AssignEndpoint
  \/ ModelDump
  \/ ReadField
  \/ Discard

Spec == Init /\ [][Next]_vars

\* ------------------------------------------------------------------ claims
Constructed == pc \in {"built", "failed"}
ValidEndpoints == args.from_to.t \in BusKinds /\ args.to_from.t \in BusKinds
NoExtra == args[ExtraKey] = Omitted
AllOrNothing == (errors = {} => pc = "built" /\ obj.t = kind) /\ (errors # {} => pc = "failed" /\ obj = NoInstance)

C2_NumberPositive ==
  (kind \in BusKinds)
    => /\ args.number.t = "int" => ("number" \in errors <=> args.number.v <= 0)
       /\ args.number = Omitted => "number" \in errors
       /\ errors \subseteq {"number"}
            => (pc = "built" <=> (args.number.t = "int" /\ args.number.v >= 1))
       /\ AllOrNothing

C2_Witness ==
  /\ kind \in BusKinds /\ pc = "failed"
  /\ args.number = PyInt(0) /\ errors = {"number"}

\* C3: an ACBus with angle a is accepted exactly when -1.571 < a < 1.571,
\* both boundary values are rejected, and an omitted angle is accepted and
\* stays absent.
C3_AngleOpenInterval ==
  (kind = "ACBus")
    => /\ args.angle.t = "float"
            => ("angle" \in errors <=> ~(-AngleBound < args.angle.v /\ args.angle.v < AngleBound))
       /\ args.angle \in {PyFloat(-AngleBound), PyFloat(AngleBound)} => pc = "failed"
       /\ args.angle = Omitted
            => ("angle" \notin errors /\ (pc = "built" => obj.v.angle = None))
       /\ (args.angle.t = "float" /\ errors \subseteq {"angle"})
            => (pc = "built" <=> (-AngleBound < args.angle.v /\ args.angle.v < AngleBound))

C3_Witness ==
  /\ kind = "ACBus" /\ pc = "failed"
  /\ args.angle = PyFloat(AngleBound) /\ errors = {"angle"}

PeakFields == {"peak_active_power", "peak_reactive_power"}
NegativePeaks == {f \in PeakFields : args[f].t = "float" /\ args[f].v < 0}

\* C4: an Area or LoadZone is rejected, with the field named, for each peak
\* power below 0 and for nothing else about the peaks; 0 is accepted;
\* load_response takes any real, and no rule couples the fields.
C4_PeaksNonNegative ==
  (kind \in {"Area", "LoadZone"})
    => /\ \A f \in PeakFields :
            args[f].t = "float" => (f \in errors <=> args[f].v < 0)
       /\ errors \cap PeakFields = NegativePeaks
       /\ kind = "Area" /\ args.load_response.t = "float" => "load_response" \notin errors
       /\ NoExtra => (pc = "built" <=> NegativePeaks = {})

C4_Witness ==
  /\ kind = "Area" /\ pc = "built"
  /\ args.peak_active_power = PyFloat(0) /\ args.peak_reactive_power = PyFloat(MaxPower)
  /\ args.load_response = PyFloat(-MaxPower)
  /\ obj.v.load_response = PyFloat(-MaxPower)

\* C5: a bus with a quantity as base_voltage is accepted on that field
\* exactly when the magnitude is above 0 and the unit is a voltage; the
\* accepted value keeps its magnitude and unit.
C5_BaseVoltage ==
  (kind \in BusKinds /\ args.base_voltage.t = "Quantity")
    => /\ "base_voltage" \in errors
            <=> ~(args.base_voltage.v.magnitude > 0 /\ args.base_voltage.v.unit \in {"V", "kV"})
       /\ errors \subseteq {"base_voltage"}
            => (pc = "built"
                  <=> (args.base_voltage.v.magnitude > 0 /\ args.base_voltage.v.unit \in {"V", "kV"}))
       /\ pc = "built" => obj.v.base_voltage.v = args.base_voltage.v

C5_Witness ==
  /\ kind \in BusKinds /\ pc = "failed"
  /\ args.base_voltage = Quantity(0, "kV") /\ errors = {"base_voltage"}

Violated ==
  {f \in FieldSet(kind) : ~FieldResult(kind, f, args).ok}
    \cup {k \in {ExtraKey} : args[k] # Omitted}

\* C6: a construction with k >= 1 violated fields gives a ValidationError
\* listing all k of them and no instance; with none violated it gives an
\* instance whose fields not supplied hold their declared defaults.
C6_AllErrorsOrInstance ==
  Constructed
    => /\ errors = Violated
       /\ AllOrNothing
       /\ pc = "built"
            => \A f \in FieldSet(kind) : args[f] = Omitted => obj.v[f] = Default(kind, f)

C6_Witness ==
  /\ kind = "ACBus" /\ pc = "failed" /\ obj = NoInstance
  /\ errors = {"number", "voltage_limits", "base_voltage", "magnitude", "angle", ExtraKey}

\* C7: a bus with voltage_limits is rejected when min > max and accepted on
\* that field when min <= max; without voltage_limits nothing is checked.
C7_VoltageLimitsOrdered ==
  (kind \in BusKinds)
    => /\ args.voltage_limits.t = "pair"
            => ("voltage_limits" \in errors
                  <=> args.voltage_limits.v.min > args.voltage_limits.v.max)
       /\ (args.voltage_limits.t = "pair" /\ errors \subseteq {"voltage_limits"})
            => (pc = "built" <=> args.voltage_limits.v.min <= args.voltage_limits.v.max)
       /\ args.voltage_limits = Omitted
            => ("voltage_limits" \notin errors
                  /\ (pc = "built" => obj.v.voltage_limits = None))

C7_Witness ==
  /\ kind \in BusKinds /\ pc = "failed"
  /\ args.voltage_limits = Pair(MaxLimit, 0) /\ errors = {"voltage_limits"}

\* C8: no operation on a built Arc changes its name; assigning name raises
\* and leaves the Arc as it was; a representation of the Arc has from_to and
\* to_from and no name.
C8_NameFrozenAndExcluded ==
  [][(kind = "Arc" /\ pc = "built" /\ pc' = "built")
       => /\ obj'.v.name = obj.v.name
          /\ lastOp' = "assign_name" => (result'.v.raised /\ obj' = obj)
          /\ lastOp' = "dump"
               => /\ result'.t = "dict"
                  /\ "name" \notin DOMAIN result'.v
                  /\ {"from_to", "to_from"} \subseteq DOMAIN result'.v]_vars

C8_Witness ==
  /\ kind = "Arc" /\ pc = "built" /\ lastOp = "assign_name"
  /\ result.v.value = PyStr("B") /\ result.v.raised
  /\ obj.v.name = PyStr("A")

OptionalFields ==
  {"bustype", "area", "load_zone", "voltage_limits", "base_voltage", "magnitude", "angle"}
ZeroLike == {PyInt(0), PyFloat(0), PyStr(""), Quantity(0, "kV"), VoltageQ(0, "kV")}

\* C9: on a bus with a valid number every omitted optional field is accepted
\* and reads as None, which is none of the zero values; the errors of such a
\* construction are all on supplied fields.
C9_OmittedIsAbsent ==
  (kind \in BusKinds /\ Constructed /\ "number" \notin errors)
    => /\ \A f \in OptionalFields \cap FieldSet(kind) :
            args[f] = Omitted
              => /\ f \notin errors
                 /\ pc = "built" => (obj.v[f] = None /\ obj.v[f] \notin ZeroLike)
       /\ errors \subseteq {f \in DOMAIN args : args[f] # Omitted}
       /\ (lastOp = "read" /\ result.v.field \in OptionalFields
             /\ args[result.v.field] = Omitted)
            => (result.v.value = None /\ result.v.value \notin ZeroLike)

C9_Witness ==
  /\ kind = "ACBus" /\ pc = "built" /\ lastOp = "read"
  /\ \A f \in OptionalFields : args[f] = Omitted
  /\ result.v.field = "magnitude" /\ result.v.value = None

\* The keyword arguments that hand an instance's field values back to its type.
FieldValues(inst) == inst.v @@ NoArgs

SatisfiesAggregation(a) ==
  /\ a.v.peak_active_power.t = "float" /\ a.v.peak_active_power.v >= 0
  /\ a.v.peak_reactive_power.t = "float" /\ a.v.peak_reactive_power.v >= 0

SatisfiesBus(b) ==
  /\ b.v.number.t = "int" /\ b.v.number.v >= 1
  /\ b.v.base_voltage.t = "Voltage" /\ b.v.base_voltage.v.magnitude > 0
  /\ b.v.base_voltage.v.unit \in {"V", "kV"}
  /\ b.v.voltage_limits # None => b.v.voltage_limits.v.min <= b.v.voltage_limits.v.max
  /\ b.v.area.t = "Area" /\ SatisfiesAggregation(b.v.area)
  /\ b.v.load_zone.t = "LoadZone" /\ SatisfiesAggregation(b.v.load_zone)
  /\ b.t = "ACBus"
       => (b.v.angle = None \/ (-AngleBound < b.v.angle.v /\ b.v.angle.v < AngleBound))

\* C10: each example() gives an instance; it and the Area and LoadZone inside
\* it satisfy the constraints of their types, and constructing the type again
\* from the instance's field values gives the same instance and no error.
C10_ExamplesValid ==
  (lastOp = "example")
    => /\ pc = "built" /\ errors = {}
       /\ kind \in {"Area", "LoadZone"} => SatisfiesAggregation(obj)
       /\ kind \in BusKinds => SatisfiesBus(obj)
       /\ Construct(kind, FieldValues(obj)) = [errors |-> {}, obj |-> obj]
       /\ kind \in BusKinds
            => /\ Construct("Area", FieldValues(obj.v.area)).errors = {}
               /\ Construct("LoadZone", FieldValues(obj.v.load_zone)).errors = {}

C10_Witness ==
  /\ lastOp = "example" /\ kind = "ACBus" /\ pc = "built"
  /\ obj.v.voltage_limits = MinMax(ExampleMin, ExampleMax)
  /\ obj.v.base_voltage = VoltageQ(ACExampleKV, "kV")
  /\ obj.v.area.v.name = PyStr("New York")
====
